---- MODULE Spec2Model ----
(***************************************************************************)
(* DeepZoomGenerator (src/deepzoom.cpp): the Deep Zoom pyramid derived     *)
(* from an OpenSlide source, its tile grid, and the tile geometry queries. *)
(*                                                                         *)
(* Conventions.                                                            *)
(*  - C++ vectors are functions over 0..n-1, so indices read as in the     *)
(*    source.  A std::pair is a 2-tuple <<first, second>>.                 *)
(*  - A double is an exact rational <<num, den>> with den > 0, kept in     *)
(*    lowest terms.  All doubles of the program are quotients and products *)
(*    of small integers; rounding error of IEEE arithmetic is not modelled.*)
(*  - A uint32_t pixel sample is a pair of 16-bit limbs <<hi, lo>>         *)
(*    (value hi*65536 + lo), because TLC evaluates integers in 32 bits.    *)
(*  - m_mpp and m_background_color (lines 10-12, 74-75) are not read by    *)
(*    any geometry computation and are left out.                           *)
(***************************************************************************)
EXTENDS Integers, Sequences, FiniteSets

VARIABLES
    slide,                     \* the openslide_t source handed to the constructor
    constructed,               \* FALSE until the constructor body has run
    m_tile_size, m_overlap, m_limit_bounds,
    m_levels, m_l_dimensions, m_l0_offset,
    m_dzl_dimensions, m_dz_levels, m_t_dimensions,
    m_preferred_slide_levels, m_level_downsamples, m_level_dz_downsamples,
    result,                    \* the value the last query returned, until the caller takes it
    buf                        \* get_tile's sample buffer, as the source filled it

tables == <<m_tile_size, m_overlap, m_limit_bounds, m_levels, m_l_dimensions,
            m_l0_offset, m_dzl_dimensions, m_dz_levels, m_t_dimensions,
            m_preferred_slide_levels, m_level_downsamples, m_level_dz_downsamples>>

vars == <<slide, constructed, tables, result, buf>>

(***************************************************************************)
(* Bounds of the model.                                                    *)
(***************************************************************************)
MaxWidth == 5      \* native level-0 widths range over 1..MaxWidth
MaxHeight == 3     \* native level-0 heights range over 1..MaxHeight
MaxTile == 2       \* tile_size ranges over 1..MaxTile
MaxOverlap == 2    \* overlap ranges over 0..MaxOverlap
MaxOff == 1        \* bounds-x / bounds-y offsets range over 0..MaxOff
MaxPixels == 4     \* get_tile is explored for reads of at most MaxPixels samples

(***************************************************************************)
(* Arithmetic helpers.                                                     *)
(***************************************************************************)
Max(a, b) == IF a >= b THEN a ELSE b
Min(a, b) == IF a <= b THEN a ELSE b
Abs(a) == IF a < 0 THEN 0 - a ELSE a

RECURSIVE GCD(_, _)
GCD(a, b) == IF b = 0 THEN a ELSE GCD(b, a % b)

\* a rational in lowest terms with a positive denominator
Rat(n, d) ==
    LET s == IF d < 0 THEN 0 - 1 ELSE 1
        g == GCD(Abs(n), Abs(d))
    IN  <<(s * n) \div g, (s * d) \div g>>

RMul(a, b) == Rat(a[1] * b[1], a[2] * b[2])
RDiv(a, b) == Rat(a[1] * b[2], a[2] * b[1])
RLess(a, b) == a[1] * b[2] < b[1] * a[2]

\* std::ceil of a double
Ceil(r) == 0 - ((0 - r[1]) \div r[2])
\* static_cast<int64_t> of a double: truncation toward zero
Trunc(r) == IF r[1] >= 0 THEN r[1] \div r[2] ELSE 0 - ((0 - r[1]) \div r[2])

RECURSIVE Pow2(_)
Pow2(n) == IF n <= 0 THEN 1 ELSE 2 * Pow2(n - 1)

(***************************************************************************)
(* Text conversions.  A C string is a sequence of one-character strings.   *)
(***************************************************************************)
DigitChars == <<"0", "1", "2", "3", "4", "5", "6", "7", "8", "9">>

DigitVal(c) == (CHOOSE i \in 1..10 : DigitChars[i] = c) - 1
IsDigit(c) == \E i \in 1..10 : DigitChars[i] = c

\* std::to_string(int)
RECURSIVE nat_to_string(_)
nat_to_string(n) ==
    IF n < 10 THEN <<DigitChars[n + 1]>>
    ELSE Append(nat_to_string(n \div 10), DigitChars[(n % 10) + 1])
to_string(n) == IF n < 0 THEN <<"-">> \o nat_to_string(0 - n) ELSE nat_to_string(n)

\* std::strtol(p, nullptr, 10): the leading decimal digits of p, 0 when none
RECURSIVE StrTolFrom(_, _, _)
StrTolFrom(p, i, acc) ==
    IF i > Len(p) \/ ~IsDigit(p[i]) THEN acc
    ELSE StrTolFrom(p, i + 1, 10 * acc + DigitVal(p[i]))
StrTol(p) ==
    IF Len(p) > 0 /\ p[1] = "-" THEN 0 - StrTolFrom(p, 2, 0) ELSE StrTolFrom(p, 1, 0)

(***************************************************************************)
(* The source (openslide_t).  A slide reports its level count, per-level   *)
(* dimensions and downsamples, and named string properties; an absent      *)
(* property (a null return) is a name outside DOMAIN properties.           *)
(***************************************************************************)
BOUNDS_X == "openslide.bounds-x"
BOUNDS_Y == "openslide.bounds-y"
BOUNDS_WIDTH == "openslide.bounds-width"
BOUNDS_HEIGHT == "openslide.bounds-height"

NoProperties == [n \in {} |-> <<>>]

BoundsProperties(x, y, w, h) ==
    [n \in {BOUNDS_X, BOUNDS_Y, BOUNDS_WIDTH, BOUNDS_HEIGHT} |->
        CASE n = BOUNDS_X -> to_string(x)
          [] n = BOUNDS_Y -> to_string(y)
          [] n = BOUNDS_WIDTH -> to_string(w)
          [] n = BOUNDS_HEIGHT -> to_string(h)]

\* the property sets a slide of level-0 size (w0, h0) may carry
PropertySets(w0, h0) ==
    {NoProperties} \cup
    {BoundsProperties(o, o, w0 - o, h0 - o) : o \in {o \in 0..MaxOff : o < w0 /\ o < h0}}

\* a reduced native level: each axis of level 0 divided by k, rounded down or up
Shrink(w, k, up) == Max(1, IF up THEN 0 - ((0 - w) \div k) ELSE w \div k)

\* the downsample OpenSlide reports for a level: the mean of the two axis ratios
LevelDownsample(d0, d) == Rat(d0[1] * d[2] + d0[2] * d[1], 2 * d[1] * d[2])

NativeShrink == {2, 4}

OneLevelSlide(w0, h0, props) ==
    [level_count |-> 1,
     dimensions |-> [l \in 0..0 |-> <<w0, h0>>],
     downsample |-> [l \in 0..0 |-> <<1, 1>>],
     properties |-> props]

TwoLevelSlide(w0, h0, k, up, props) ==
    LET d1 == <<Shrink(w0, k, up), Shrink(h0, k, up)>>
    IN  [level_count |-> 2,
         dimensions |-> [l \in 0..1 |-> IF l = 0 THEN <<w0, h0>> ELSE d1],
         downsample |-> [l \in 0..1 |->
                            IF l = 0 THEN <<1, 1>> ELSE LevelDownsample(<<w0, h0>>, d1)],
         properties |-> props]

Slides ==
    UNION {
        {OneLevelSlide(w0, h0, props) : props \in PropertySets(w0, h0)} \cup
        {TwoLevelSlide(w0, h0, k, up, props) :
            k \in {k \in NativeShrink : Shrink(w0, k, FALSE) < w0 \/ Shrink(h0, k, FALSE) < h0},
            up \in BOOLEAN, props \in PropertySets(w0, h0)}
        : w0 \in 1..MaxWidth, h0 \in 1..MaxHeight}

\* the slide of the specification's scenarios A to D: one level of 1000 x 800
ScenarioSlide == OneLevelSlide(1000, 800, NoProperties)
ScenarioConfig == [tile_size |-> 254, overlap |-> 1, limit_bounds |-> FALSE]

openslide_get_level_count(s) == s.level_count
openslide_get_level_dimensions(s, l) == s.dimensions[l]
openslide_get_level_downsample(s, l) == s.downsample[l]
HasProperty(s, name) == name \in DOMAIN s.properties
openslide_get_property_value(s, name) == s.properties[name]

\* the level with the largest downsample not above the requested one
openslide_get_best_level_for_downsample(s, d) ==
    IF RLess(d, s.downsample[0]) THEN 0
    ELSE LET above == {i \in 1..(s.level_count - 1) : RLess(d, s.downsample[i])}
         IN  IF above = {} THEN s.level_count - 1
             ELSE (CHOOSE i \in above : \A k \in above : i <= k) - 1

(***************************************************************************)
(* The constructor, lines 7-76, as the values it gives each member.        *)
(***************************************************************************)
\* lines 25-28: m_l0_offset, (0, 0) unless bounds-limited and the property is there
bounds_offset(s, limit_bounds) ==
    <<IF limit_bounds /\ HasProperty(s, BOUNDS_X)
        THEN StrTol(openslide_get_property_value(s, BOUNDS_X)) ELSE 0,
      IF limit_bounds /\ HasProperty(s, BOUNDS_Y)
        THEN StrTol(openslide_get_property_value(s, BOUNDS_Y)) ELSE 0>>

\* lines 30-35: the per-axis scale bounds_size / level0_size, 1 when absent
size_scale(s) ==
    LET l0_lim == openslide_get_level_dimensions(s, 0)
    IN  <<IF HasProperty(s, BOUNDS_WIDTH)
            THEN Rat(StrTol(openslide_get_property_value(s, BOUNDS_WIDTH)), l0_lim[1])
            ELSE <<1, 1>>,
          IF HasProperty(s, BOUNDS_HEIGHT)
            THEN Rat(StrTol(openslide_get_property_value(s, BOUNDS_HEIGHT)), l0_lim[2])
            ELSE <<1, 1>>>>

\* lines 14-21 and 37-41: the native level dimensions, scaled when bounds-limited
l_dimensions(s, limit_bounds) ==
    [l \in 0..(openslide_get_level_count(s) - 1) |->
        LET d == openslide_get_level_dimensions(s, l)
        IN  IF limit_bounds
            THEN <<Ceil(RMul(<<d[1], 1>>, size_scale(s)[1])),
                   Ceil(RMul(<<d[2], 1>>, size_scale(s)[2]))>>
            ELSE d]

\* lines 46-47: the next smaller pyramid level
HalveFloor(d) == <<Max(1, d[1] \div 2), Max(1, d[2] \div 2)>>
Halve(d) == <<Max(1, (d[1] + 1) \div 2), Max(1, (d[2] + 1) \div 2)>>

\* lines 44-47: push halved levels until the last one is 1 x 1
RECURSIVE PushLevels(_)
PushLevels(v) ==
    IF v[Len(v)][1] > 1 \/ v[Len(v)][2] > 1
    THEN PushLevels(Append(v, Halve(v[Len(v)])))
    ELSE v

\* line 48: std::reverse, as a vector indexed from 0
Reverse(v) == [j \in 0..(Len(v) - 1) |-> v[Len(v) - j]]

dzl_dimensions(l_dims) == Reverse(PushLevels(<<l_dims[0]>>))

\* the values a conversion of an infinite double to int64_t is seen to produce
\* (undefined behaviour); three representatives of the int64_t range
UndefinedCast == {0 - 1, 0, 1}

\* lines 53-54: ceil(double(d) / tile_size) on each axis; a tile_size of 0 divides
\* to infinity, whose conversion to int64_t is undefined and yields ub
TileGridFloor(d, tile_size, ub) ==
    IF tile_size = 0 THEN <<ub, ub>>
    ELSE <<Trunc(Rat(d[1], tile_size)), Trunc(Rat(d[2], tile_size))>>
TileGrid(d, tile_size, ub) ==
    IF tile_size = 0 THEN <<ub, ub>>
    ELSE <<Ceil(Rat(d[1], tile_size)), Ceil(Rat(d[2], tile_size))>>

\* lines 51-54
t_dimensions(dzl, tile_size, ub) == [j \in DOMAIN dzl |-> TileGrid(dzl[j], tile_size, ub)]

\* line 61: std::pow(2, dz_levels - l - 1)
level_0_dz_downsample(dz_levels, l) == <<Pow2(dz_levels - l - 1), 1>>

\* lines 59-64
preferred_slide_levels(s, dz_levels) ==
    [l \in 0..(dz_levels - 1) |->
        openslide_get_best_level_for_downsample(s, level_0_dz_downsample(dz_levels, l))]

\* lines 66-68
level_downsamples(s) ==
    [l \in 0..(openslide_get_level_count(s) - 1) |-> openslide_get_level_downsample(s, l)]

\* lines 70-72
level_dz_downsamples(s, dz_levels) ==
    [l \in 0..(dz_levels - 1) |->
        RDiv(level_0_dz_downsample(dz_levels, l),
             level_downsamples(s)[preferred_slide_levels(s, dz_levels)[l]])]

NoResult == [op |-> "none", args |-> <<>>, value |-> <<>>, thrown |-> FALSE]

\* the constructor body; the member initialisers of line 8 have already run
DeepZoomGenerator ==
    /\ ~constructed
    /\ \E ub \in UndefinedCast :
        LET dzl == dzl_dimensions(l_dimensions(slide, m_limit_bounds))
            n == Len(PushLevels(<<l_dimensions(slide, m_limit_bounds)[0]>>))
        IN  /\ (m_tile_size # 0 => ub = 0)
            /\ m_levels' = openslide_get_level_count(slide)
            /\ m_l_dimensions' = l_dimensions(slide, m_limit_bounds)
            /\ m_l0_offset' = bounds_offset(slide, m_limit_bounds)
            /\ m_dzl_dimensions' = dzl
            /\ m_dz_levels' = n
            /\ m_t_dimensions' = t_dimensions(dzl, m_tile_size, ub)
            /\ m_preferred_slide_levels' = preferred_slide_levels(slide, n)
            /\ m_level_downsamples' = level_downsamples(slide)
            /\ m_level_dz_downsamples' = level_dz_downsamples(slide, n)
    /\ constructed' = TRUE
    /\ UNCHANGED <<slide, m_tile_size, m_overlap, m_limit_bounds, result, buf>>

(***************************************************************************)
(* _get_tile_info, lines 163-190, one definition per local of the source.  *)
(***************************************************************************)
\* line 170
z_overlap_tl(col, row) ==
    <<m_overlap * (IF col # 0 THEN 1 ELSE 0), m_overlap * (IF row # 0 THEN 1 ELSE 0)>>

\* lines 171-172
z_overlap_br_every(dz_level, col, row) == <<m_overlap, m_overlap>>
z_overlap_br(dz_level, col, row) ==
    <<m_overlap * (IF col # m_t_dimensions[dz_level][1] - 1 THEN 1 ELSE 0),
      m_overlap * (IF row # m_t_dimensions[dz_level][2] - 1 THEN 1 ELSE 0)>>

\* line 173
z_location(col, row) == <<m_tile_size * col, m_tile_size * row>>

\* lines 174-177
z_size_unclipped(dz_level, col, row) ==
    <<m_tile_size + z_overlap_tl(col, row)[1] + z_overlap_br(dz_level, col, row)[1],
      m_tile_size + z_overlap_tl(col, row)[2] + z_overlap_br(dz_level, col, row)[2]>>
z_size(dz_level, col, row) ==
    <<Min(m_tile_size, m_dzl_dimensions[dz_level][1] - z_location(col, row)[1])
        + z_overlap_tl(col, row)[1] + z_overlap_br(dz_level, col, row)[1],
      Min(m_tile_size, m_dzl_dimensions[dz_level][2] - z_location(col, row)[2])
        + z_overlap_tl(col, row)[2] + z_overlap_br(dz_level, col, row)[2]>>

\* lines 178-180: a pair of doubles
l_location(dz_level, col, row) ==
    LET l_dz_downsample == m_level_dz_downsamples[dz_level]
    IN  <<RMul(l_dz_downsample, <<z_location(col, row)[1] - z_overlap_tl(col, row)[1], 1>>),
          RMul(l_dz_downsample, <<z_location(col, row)[2] - z_overlap_tl(col, row)[2], 1>>)>>

\* lines 181-183
l0_location(dz_level, col, row) ==
    LET l_downsample == m_level_downsamples[m_preferred_slide_levels[dz_level]]
    IN  <<Trunc(RMul(l_downsample, l_location(dz_level, col, row)[1])) + m_l0_offset[1],
          Trunc(RMul(l_downsample, l_location(dz_level, col, row)[2])) + m_l0_offset[2]>>

\* lines 184-188
l_size_unclipped(dz_level, col, row) ==
    <<Ceil(RMul(m_level_dz_downsamples[dz_level], <<z_size(dz_level, col, row)[1], 1>>)),
      Ceil(RMul(m_level_dz_downsamples[dz_level], <<z_size(dz_level, col, row)[2], 1>>))>>
l_size(dz_level, col, row) ==
    LET slide_level == m_preferred_slide_levels[dz_level]
        l_dz_downsample == m_level_dz_downsamples[dz_level]
    IN  <<Min(Ceil(RMul(l_dz_downsample, <<z_size(dz_level, col, row)[1], 1>>)),
              m_l_dimensions[slide_level][1] - Ceil(l_location(dz_level, col, row)[1])),
          Min(Ceil(RMul(l_dz_downsample, <<z_size(dz_level, col, row)[2], 1>>)),
              m_l_dimensions[slide_level][2] - Ceil(l_location(dz_level, col, row)[2]))>>

\* line 189: ((l0_location, slide_level, l_size), z_size)
get_tile_info(dz_level, col, row) ==
    << <<l0_location(dz_level, col, row), m_preferred_slide_levels[dz_level],
         l_size(dz_level, col, row)>>,
       z_size(dz_level, col, row) >>

\* the addresses the commented-out assertions of lines 165-167 admit
ValidAddresses ==
    UNION {{<<l, c, r>> : c \in 0..(m_t_dimensions[l][1] - 1),
                          r \in 0..(m_t_dimensions[l][2] - 1)}
           : l \in 0..(m_dz_levels - 1)}

(***************************************************************************)
(* The queries.  Each is a const member function: it returns a value and   *)
(* assigns no member.                                                      *)
(***************************************************************************)
Return(op, args, value) == [op |-> op, args |-> args, value |-> value, thrown |-> FALSE]
Throw(op, args, what) == [op |-> op, args |-> args, value |-> what, thrown |-> TRUE]

\* the caller is between two calls: the generator is built and the value of the
\* previous call, if any, has been taken
Idle == constructed /\ result = NoResult

\* the caller takes the returned value (or catches the exception) and goes on
TakeResult ==
    /\ result # NoResult
    /\ result' = NoResult
    /\ buf' = <<>>
    /\ UNCHANGED <<slide, constructed, tables>>

\* lines 78-81
level_count ==
    /\ Idle
    /\ result' = Return("level_count", <<>>, m_dz_levels)
    /\ UNCHANGED <<slide, constructed, tables, buf>>

\* lines 83-86
level_tiles_moved ==
    /\ Idle
    /\ result' = Return("level_tiles", <<>>, m_t_dimensions)
    /\ m_t_dimensions' = <<>>
    /\ UNCHANGED <<slide, constructed, m_tile_size, m_overlap, m_limit_bounds, m_levels,
                   m_l_dimensions, m_l0_offset, m_dzl_dimensions, m_dz_levels,
                   m_preferred_slide_levels, m_level_downsamples,
                   m_level_dz_downsamples, buf>>
level_tiles ==
    /\ Idle
    /\ result' = Return("level_tiles", <<>>, m_t_dimensions)
    /\ UNCHANGED <<slide, constructed, tables, buf>>

\* lines 88-91
level_dimensions ==
    /\ Idle
    /\ result' = Return("level_dimensions", <<>>, m_dzl_dimensions)
    /\ UNCHANGED <<slide, constructed, tables, buf>>

\* lines 95-96: std::reduce over m_t_dimensions from the initial value init
RECURSIVE Reduce(_, _, _)
Reduce(t, n, init) ==
    IF n = 0 THEN init ELSE Reduce(t, n - 1, init) + t[n - 1][1] * t[n - 1][2]

\* lines 93-97
tile_count ==
    /\ Idle
    /\ result' = Return("tile_count", <<>>, Reduce(m_t_dimensions, m_dz_levels, 1))
    /\ UNCHANGED <<slide, constructed, tables, buf>>

\* lines 125-129
get_tile_coordinates ==
    /\ Idle
    /\ \E a \in ValidAddresses :
        /\ result' = Return("get_tile_coordinates", a, get_tile_info(a[1], a[2], a[3])[1])
    /\ UNCHANGED <<slide, constructed, tables, buf>>

\* lines 131-134
get_tile_dimensions ==
    /\ Idle
    /\ \E a \in ValidAddresses :
        /\ result' = Return("get_tile_dimensions", a, get_tile_info(a[1], a[2], a[3])[2])
    /\ UNCHANGED <<slide, constructed, tables, buf>>

\* the rasters a slide may hold: sample i of a region read, as limbs <<hi, lo>>
PixelPatterns == {<<258, 772>>, <<65280, 33023>>}
Sample(pat, i) == <<(pat[1] + 4111 * i) % 65536, (pat[2] + 257 * i) % 65536>>

\* line 108: the buffer after openslide_read_region, samples 0..n-1; a negative
\* width or height is refused by OpenSlide and leaves the zero-filled buffer
read_region(pat, w, h) ==
    [i \in 0..(w * h - 1) |-> IF w < 0 \/ h < 0 THEN <<0, 0>> ELSE Sample(pat, i)]

\* lines 117-120: the uint8_t conversions of p, p >> 8, p >> 16, p >> 24
UnpackARGB(p) ==
    <<(p[1] \div 256) % 256, p[1] % 256, (p[2] \div 256) % 256, p[2] % 256>>
Unpack(p) ==
    <<p[2] % 256, (p[2] \div 256) % 256, p[1] % 256, (p[1] \div 256) % 256>>

\* lines 109-121: data after the loop
RECURSIVE Repack(_, _)
Repack(b, n) == IF n = 0 THEN <<>> ELSE Repack(b, n - 1) \o Unpack(b[n - 1])

\* lines 99-123; the array allocation of line 107 throws on a negative length
get_tile ==
    /\ Idle
    /\ \E a \in ValidAddresses, pat \in PixelPatterns :
        LET info == get_tile_info(a[1], a[2], a[3])[1]
            width == info[3][1]
            height == info[3][2]
        IN  /\ width * height <= MaxPixels
            /\ IF width * height < 0
               THEN /\ result' = Throw("get_tile", a, "std::bad_array_new_length")
                    /\ buf' = <<>>
               ELSE /\ buf' = read_region(pat, width, height)
                    /\ result' = Return("get_tile", a,
                                        <<width, height, Repack(buf', width * height)>>)
    /\ UNCHANGED <<slide, constructed, tables>>

\* lines 136-155: the descriptor, as its fields in the order they are written
get_dzi ==
    /\ Idle
    /\ \E format \in {"jpeg", "png"} :
        result' = Return("get_dzi", <<format>>,
                         <<"Format", format,
                           "Overlap", to_string(m_overlap),
                           "TileSize", to_string(m_tile_size),
                           "Height", to_string(m_l_dimensions[0][2]),
                           "Width", to_string(m_l_dimensions[0][1])>>)
    /\ UNCHANGED <<slide, constructed, tables, buf>>

(***************************************************************************)
(* Specifications.                                                         *)
(***************************************************************************)
Unconstructed ==
    /\ constructed = FALSE
    /\ m_levels = 0
    /\ m_l_dimensions = <<>>
    /\ m_l0_offset = <<0, 0>>
    /\ m_dzl_dimensions = <<>>
    /\ m_dz_levels = 0
    /\ m_t_dimensions = <<>>
    /\ m_preferred_slide_levels = <<>>
    /\ m_level_downsamples = <<>>
    /\ m_level_dz_downsamples = <<>>
    /\ result = NoResult
    /\ buf = <<>>

\* a generator about to be built with a positive tile size
Init ==
    /\ \/ /\ slide \in Slides
          /\ m_tile_size \in 1..MaxTile
          /\ m_overlap \in 0..MaxOverlap
          /\ m_limit_bounds \in BOOLEAN
       \/ /\ slide = ScenarioSlide
          /\ m_tile_size = ScenarioConfig.tile_size
          /\ m_overlap = ScenarioConfig.overlap
          /\ m_limit_bounds = ScenarioConfig.limit_bounds
    /\ Unconstructed

\* a generator about to be built with any tile size, positive or not
InitAnyTileSize ==
    /\ slide \in Slides
    /\ m_tile_size \in (0 - MaxTile)..MaxTile
    /\ m_overlap \in 0..MaxOverlap
    /\ m_limit_bounds \in BOOLEAN
    /\ Unconstructed

Next ==
    \/ DeepZoomGenerator
    \/ level_count
    \/ level_tiles
    \/ level_dimensions
    \/ tile_count
    \/ get_tile
    \/ get_tile_coordinates
    \/ get_tile_dimensions
    \/ get_dzi
    \/ TakeResult

Spec == Init /\ [][Next]_vars

SpecAnyTileSize == InitAnyTileSize /\ [][Next]_vars

(***************************************************************************)
(* Properties.                                                             *)
(***************************************************************************)
GeometryQueries == {"get_tile_coordinates", "get_tile_dimensions", "get_tile"}

\* the generator of scenarios A to D has been built
IsScenario ==
    /\ constructed
    /\ slide = ScenarioSlide
    /\ m_tile_size = ScenarioConfig.tile_size
    /\ m_overlap = ScenarioConfig.overlap

\* c = ceil(x / 2), stated without division
IsCeilHalf(c, x) == 2 * c >= x /\ 2 * (c - 1) < x

\* C1: get_tile_dimensions(level, col, row) returns, on each axis,
\* min(tile_size, level size - tile_size * index) + overlap_tl + overlap_br; in the
\* scenario (1000 x 800, tile_size 254, overlap 1) address (10,0,0) gives (255,255)
\* and address (10,3,3) gives (239,39).
C1_TileDimensions ==
    result.op = "get_tile_dimensions" =>
        LET level == result.args[1]
            idx == <<result.args[2], result.args[3]>>
            tl(k) == IF idx[k] # 0 THEN m_overlap ELSE 0
            br(k) == IF idx[k] # m_t_dimensions[level][k] - 1 THEN m_overlap ELSE 0
            expect(k) ==
                Min(m_tile_size, m_dzl_dimensions[level][k] - m_tile_size * idx[k])
                    + tl(k) + br(k)
        IN  /\ result.value = <<expect(1), expect(2)>>
            /\ (IsScenario /\ result.args = <<10, 0, 0>>) => result.value = <<255, 255>>
            /\ (IsScenario /\ result.args = <<10, 3, 3>>) => result.value = <<239, 39>>

C1_Witness ==
    /\ IsScenario
    /\ result.op = "get_tile_dimensions"
    /\ result.args = <<10, 3, 3>>
    /\ result.value = <<239, 39>>

\* the read origin of a coordinates query, l_dz_downsample * (z_loc - overlap_tl)
ReadOrigin(k) ==
    LET idx == <<result.args[2], result.args[3]>>
        tl == IF idx[k] # 0 THEN m_overlap ELSE 0
    IN  RMul(m_level_dz_downsamples[result.args[1]], <<m_tile_size * idx[k] - tl, 1>>)

ReadInsideRaster ==
    \A k \in 1..2 :
        /\ ReadOrigin(k)[1] >= 0
        /\ Ceil(ReadOrigin(k)) + result.value[3][k]
               <= m_l_dimensions[result.value[2]][k]

\* C2 as stated: for every valid address the read origin is >= 0 on both axes and
\* ceil(origin) + l_size stays within the chosen native level's dimensions.
C2_Original == result.op = "get_tile_coordinates" => ReadInsideRaster

\* C2, amended: the same, for every configuration whose overlap does not exceed
\* its tile size.
C2_ReadInsideRaster ==
    (result.op = "get_tile_coordinates" /\ m_overlap <= m_tile_size) => ReadInsideRaster

C2_Witness ==
    /\ result.op = "get_tile_coordinates"
    /\ m_overlap >= 1
    /\ m_overlap <= m_tile_size
    /\ result.args[2] >= 1
    /\ result.value[3][1]
         < l_size_unclipped(result.args[1], result.args[2], result.args[3])[1]

\* C3: the pyramid ends at the bounded level-0 size, each level is the next one
\* halved with rounding up and a floor of 1, level 0 is 1 x 1 and no other level
\* is, so the count is the smallest possible (1 for a 1 x 1 image); 1000 x 800
\* gives the eleven levels of scenario A.  level_dimensions() and level_count()
\* return this table and its length.
C3_Pyramid ==
    constructed =>
        LET L == m_dz_levels
            dz == m_dzl_dimensions
            WH == m_l_dimensions[0]
        IN  /\ L >= 1
            /\ DOMAIN dz = 0..(L - 1)
            /\ dz[L - 1] = WH
            /\ \A j \in 1..(L - 1), k \in 1..2 :
                   \E c \in 0..dz[j][k] :
                       IsCeilHalf(c, dz[j][k]) /\ dz[j - 1][k] = Max(1, c)
            /\ dz[0] = <<1, 1>>
            /\ \A j \in 1..(L - 1) : dz[j] # <<1, 1>>
            /\ (WH = <<1, 1>> => L = 1)
            /\ (WH = <<1000, 800>> =>
                   /\ L = 11
                   /\ dz = [j \in 0..10 |->
                              << <<1, 1>>, <<2, 2>>, <<4, 4>>, <<8, 7>>, <<16, 13>>,
                                 <<32, 25>>, <<63, 50>>, <<125, 100>>, <<250, 200>>,
                                 <<500, 400>>, <<1000, 800>> >>[j + 1]])
            /\ (result.op = "level_dimensions" => result.value = dz)
            /\ (result.op = "level_count" => result.value = L)

C3_Witness ==
    /\ IsScenario
    /\ result.op = "level_dimensions"
    /\ m_dz_levels = 11
    /\ result.value[6] = <<63, 50>>

\* C4: with a positive tile size, the grid level_tiles() returns covers each level
\* exactly: cols * tile_size >= W > (cols - 1) * tile_size, and likewise for rows;
\* the 1000 x 800 level with tile_size 254 has a 4 x 4 grid.
C4_GridCoverage ==
    (result.op = "level_tiles" /\ m_tile_size > 0) =>
        /\ DOMAIN result.value = 0..(m_dz_levels - 1)
        /\ \A j \in 0..(m_dz_levels - 1), k \in 1..2 :
               /\ result.value[j][k] * m_tile_size >= m_dzl_dimensions[j][k]
               /\ m_dzl_dimensions[j][k] > (result.value[j][k] - 1) * m_tile_size
        /\ IsScenario => result.value[10] = <<4, 4>>

C4_Witness ==
    /\ IsScenario
    /\ result.op = "level_tiles"
    /\ result.value[10] = <<4, 4>>

OverlapPlacement ==
    LET level == result.args[1]
        idx == <<result.args[2], result.args[3]>>
        tl == z_overlap_tl(idx[1], idx[2])
        br == z_overlap_br(level, idx[1], idx[2])
    IN  \A k \in 1..2 :
            /\ tl[k] # 0 <=> idx[k] # 0
            /\ br[k] # 0 <=> idx[k] # m_t_dimensions[level][k] - 1

\* C5 as stated: for every overlap value, overlap_tl is nonzero on an axis exactly
\* when the index is not 0, overlap_br exactly when the index is not the last.
C5_Original == result.op \in GeometryQueries => OverlapPlacement

\* C5, amended: the same, for every nonzero overlap value.
C5_OverlapPlacement ==
    (result.op \in GeometryQueries /\ m_overlap # 0) => OverlapPlacement

C5_Witness ==
    /\ result.op = "get_tile_dimensions"
    /\ m_overlap >= 1
    /\ m_t_dimensions[result.args[1]][1] >= 3
    /\ result.args[2] = 1

\* the four bytes of a sample, least significant first
IsBytesOf(b, p) ==
    /\ \A k \in 1..4 : b[k] \in 0..255
    /\ p[2] = b[1] + 256 * b[2]
    /\ p[1] = b[3] + 256 * b[4]

\* what get_tile hands back when it returns: the read size, and every sample of
\* the source read unpacked least significant byte first
ReturnedTileBytes ==
    LET a == result.args
        width == result.value[1]
        height == result.value[2]
        data == result.value[3]
    IN  /\ <<width, height>> = get_tile_info(a[1], a[2], a[3])[1][3]
        /\ Len(data) = 4 * width * height
        /\ \A i \in 0..(width * height - 1) :
               IsBytesOf(<<data[4 * i + 1], data[4 * i + 2],
                           data[4 * i + 3], data[4 * i + 4]>>, buf[i])

\* every call of get_tile that does return, returns the bytes described
TileBytesWhenReturned == (result.op = "get_tile" /\ ~result.thrown) => ReturnedTileBytes

\* C6: for every valid address get_tile returns (width, height, data) with
\* (width, height) = l_size, 4 * width * height bytes of data, and sample i of the
\* source read unpacked at data[4i..4i+3] as its bytes from least to most
\* significant (blue, green, red, alpha).
C6_TileBytes == result.op = "get_tile" => (~result.thrown /\ ReturnedTileBytes)

\* C7: construction with a tile size <= 0 fails, leaving no constructed generator.
C7_BadTileSizeFails == m_tile_size <= 0 => ~constructed

RECURSIVE SumTiles(_, _)
SumTiles(t, n) == IF n = 0 THEN 0 ELSE SumTiles(t, n - 1) + t[n - 1][1] * t[n - 1][2]

\* what each geometry query returns for its address, given the tables as they are
GeometryOfTables ==
    LET info == get_tile_info(result.args[1], result.args[2], result.args[3])
    IN  /\ result.op = "get_tile_coordinates" => result.value = info[1]
        /\ result.op = "get_tile_dimensions" => result.value = info[2]
        /\ (result.op = "get_tile" /\ ~result.thrown) =>
               <<result.value[1], result.value[2]>> = info[1][3]

\* C8: once the generator is built no step changes a derived table or the slide,
\* and whatever ran before, a geometry query returns the value the tables give
\* for its address, so two queries for one address return the same.
C8_QueriesChangeNothing ==
    /\ [][constructed => (tables' = tables /\ slide' = slide)]_vars
    /\ [](result.op \in GeometryQueries => GeometryOfTables)

C8_Witness ==
    /\ result.op = "get_tile_coordinates"
    /\ result.args[2] >= 1
    /\ m_overlap >= 1
    /\ m_levels = 2

\* C9: tile_count() returns the sum of cols * rows over all pyramid levels.
C9_TileCount ==
    result.op = "tile_count" => result.value = SumTiles(m_t_dimensions, m_dz_levels)

\* C10: with tile_size >= 1 and overlap >= 0, the read size get_tile_coordinates
\* returns is at least 1 on both axes for every valid address.
C10_ReadSizePositive ==
    (result.op = "get_tile_coordinates" /\ m_tile_size >= 1 /\ m_overlap >= 0)
        => result.value[3][1] >= 1 /\ result.value[3][2] >= 1

====
